---- MODULE Spec2Model ----
(***************************************************************************)
(* uxarray Grid (src/uxarray/grid.py): the face-area cache, the total-area *)
(* and integration operators built on it, and the antimeridian detection   *)
(* and splitting methods.                                                  *)
(*                                                                         *)
(* Floating point numbers are modelled by integers (areas are scaled       *)
(* integers, longitudes are whole degrees).  numpy arrays are sequences;   *)
(* node arrays are functions over the 0-based node indices, so that an     *)
(* index of -1 is resolved the way numpy resolves it.                      *)
(***************************************************************************)
EXTENDS Integers, Sequences, FiniteSets, TLC

\* ------------------------------------------------------------- bounds --
NumNodes == 4
MaxFaces == 2
MaxVars == 2

\* ---------------------------------------------------------- constants --
FillValue == -1
DefaultOrder == 4
DefaultThreshold == 180
DefaultRule == "triangular"

Nodes == 0 .. (NumNodes - 1)
Warning == "WARNING: The xarray dataset file has more than one variable, using the first variable for integration"

VARIABLES
    Mesh2_node_x,       \* Mesh2_node_x.data : node index -> longitude / x
    Mesh2_node_y,       \* Mesh2_node_y.data : node index -> latitude / y
    Mesh2_node_x_units, \* Mesh2_node_x.units
    Mesh2_face_nodes,   \* F rows of nMaxMesh2_face_nodes node indices or FillValue
    _face_areas,        \* the cache: [none |-> TRUE] is Python's None
    op,                 \* the method called last ("init" after construction)
    quadrature_rule,    \* its arguments (a neutral value where it takes none)
    order,
    var_ds,
    threshold,
    outcome,            \* "return" or the name of the exception raised
    ret,                \* the value returned
    stdout,             \* what the call printed
    locals,             \* split_antimeridian_faces' local arrays when it ends
    pc,                 \* concurrent callers: position, arguments, temporaries
    t_order,
    t_tmp,
    t_ret,
    t_method

vars == <<Mesh2_node_x, Mesh2_node_y, Mesh2_node_x_units, Mesh2_face_nodes,
          _face_areas, op, quadrature_rule, order, var_ds, threshold,
          outcome, ret, stdout, locals, pc, t_order, t_tmp, t_ret, t_method>>

mesh == <<Mesh2_node_x, Mesh2_node_y, Mesh2_node_x_units, Mesh2_face_nodes>>
threads == <<pc, t_order, t_tmp, t_ret, t_method>>

\* ------------------------------------------------------------ helpers --
Abs(v) == IF v < 0 THEN -v ELSE v

RECURSIVE SumSeq(_)
SumSeq(s) == IF s = <<>> THEN 0 ELSE Head(s) + SumSeq(Tail(s))

nMesh2_face == Len(Mesh2_face_nodes)
nMaxMesh2_face_nodes == Len(Mesh2_face_nodes[1])

\* arr[i] for a 1-D numpy array of NumNodes entries: a negative index counts
\* from the end
NumpyIndex(arr, i) == IF i < 0 THEN arr[i + NumNodes] ELSE arr[i]

\* .astype(int_dtype), int_dtype = np.uint32: the value modulo 2^32, kept as
\* its two 16-bit halves <<high, low>>
AsUint32(v) == <<(v \div 65536) % 65536, v % 65536>>

\* a uint32 below 2^31 as an index
Uint32Index(u) == u[1] * 65536 + u[2]

None == [none |-> TRUE, data |-> <<>>]
Some(a) == [none |-> FALSE, data |-> a]

\* return values
RetNone == [kind |-> "None", val |-> <<>>, indices |-> <<>>, mask |-> <<>>]
RetScalar(v) == [kind |-> "scalar", val |-> <<v>>, indices |-> <<>>, mask |-> <<>>]
RetArray(a) == [kind |-> "array", val |-> a, indices |-> <<>>, mask |-> <<>>]
RetAntimeridian(ci, m) == [kind |-> "tuple2", val |-> <<>>, indices |-> ci, mask |-> m]
RetNoneTriple == [kind |-> "(None, None, None)", val |-> <<>>, indices |-> <<>>, mask |-> <<>>]

NoLocals == [left_x |-> <<>>, right_x |-> <<>>, left_exclude |-> <<>>, right_exclude |-> <<>>]

\* ---------------------------------------------- quadrature and kernel --
\* helpers.get_all_face_area_from_coords is not part of the sources at hand;
\* it is modelled from the specification (sections 4.1 to 4.3).
SupportedRules == {"triangular"}
SupportedOrders == 1 .. 4

Supported(rule, ord) == rule \in SupportedRules /\ ord \in SupportedOrders

\* Topology Accessor: the node indices of a row that are not the sentinel,
\* in their original order
valid_nodes(row, fill) == SelectSeq(row, LAMBDA n : n # fill)

\* twice the planar area of the triangle, times the quadrature's scaling:
\* exact for cartesian coordinates under any order, order dependent on the
\* sphere
TriangleArea(x, y, a, b, c, ord, coords_type) ==
    LET cross == (x[b] - x[a]) * (y[c] - y[a]) - (x[c] - x[a]) * (y[b] - y[a])
    IN  IF coords_type = "cartesian"
        THEN Abs(cross) * 10
        ELSE Abs(cross) * (10 + (4 - ord))

\* fan triangulation from the first vertex: (v0, vi, vi+1), i = 1 .. k-2
FaceArea(x, y, v, ord, coords_type) ==
    SumSeq([i \in 1 .. (Len(v) - 2) |->
                TriangleArea(x, y, v[1], v[i + 1], v[i + 2], ord, coords_type)])

get_all_face_area_from_coords(x, y, face_nodes, rule, ord, coords_type) ==
    LET rows == [i \in 1 .. Len(face_nodes) |->
                    LET v == valid_nodes(face_nodes[i], AsUint32(FillValue))
                    IN  [j \in 1 .. Len(v) |-> Uint32Index(v[j])]]
    IN  IF ~Supported(rule, ord) \/ \E i \in 1 .. Len(rows) : Len(rows[i]) < 3
        THEN [raised |-> TRUE, areas |-> <<>>]
        ELSE [raised |-> FALSE,
              areas |-> [i \in 1 .. Len(rows) |->
                            FaceArea(x, y, rows[i], ord, coords_type)]]

\* ------------------------------------------------- compute_face_areas --
\* "degree" in self.Mesh2_node_x.units
UnitsWithDegree == {"degrees_east", "degrees", "degree"}

coords_type == IF Mesh2_node_x_units \in UnitsWithDegree
               THEN "spherical" ELSE "cartesian"

\* the helper call of lines 306-321 on the grid's arrays (the z coordinates
\* and the topology dimension are handed to the helper as they are and play
\* no part in what the grid caches or returns)
HelperCall(rule, ord) ==
    get_all_face_area_from_coords(
        Mesh2_node_x, Mesh2_node_y,
        [i \in 1 .. nMesh2_face |->
            [j \in 1 .. nMaxMesh2_face_nodes |-> AsUint32(Mesh2_face_nodes[i][j])]],
        rule, ord, coords_type)

\* the method on a cache: the exception raised ("" for none), the cache it
\* leaves and the array it returns
compute_face_areas(cache, rule, ord) ==
    IF cache.none
    THEN LET r == HelperCall(rule, ord)
         IN  IF r.raised
             THEN [exc |-> "ConfigurationError", cache |-> cache, areas |-> <<>>]
             ELSE [exc |-> "", cache |-> Some(r.areas), areas |-> r.areas]
    ELSE [exc |-> "", cache |-> cache, areas |-> cache.data]

\* the face_areas property
face_areas(cache) ==
    IF cache.none
    THEN LET r == compute_face_areas(cache, DefaultRule, DefaultOrder)
         IN  [exc |-> r.exc, cache |-> r.cache, areas |-> r.cache.data]
    ELSE [exc |-> "", cache |-> cache, areas |-> cache.data]

np_sum(a) == SumSeq(a)

calculate_total_face_area(cache, rule, ord) ==
    LET r == compute_face_areas(cache, rule, ord)
    IN  IF r.exc # ""
        THEN [exc |-> r.exc, cache |-> r.cache, value |-> RetNone]
        ELSE [exc |-> "", cache |-> r.cache, value |-> RetScalar(np_sum(r.areas))]

\* ---------------------------------------------------------- integrate --
\* a variable of the dataset: its shape and its values in row-major order
Field(shape, data) == [shape |-> shape, data |-> data]

\* np.multiply in place of np.dot: the products, not summed
np_dot_elementwise(a, b) ==
    IF Len(b.shape) = 1 /\ b.shape[1] = Len(a)
    THEN [exc |-> "", value |-> RetArray([i \in 1 .. Len(a) |-> a[i] * b.data[i]])]
    ELSE [exc |-> "ValueError", value |-> RetNone]

\* np.dot(a, b) for a 1-D a: a scaled by a 0-d b, the inner product with a
\* 1-D b, the vector-matrix product with a 2-D b
np_dot(a, b) ==
    CASE Len(b.shape) = 0 ->
            [exc |-> "", value |-> RetArray([i \in 1 .. Len(a) |-> a[i] * b.data[1]])]
      [] Len(b.shape) = 1 ->
            IF b.shape[1] # Len(a)
            THEN [exc |-> "ValueError", value |-> RetNone]
            ELSE [exc |-> "",
                  value |-> RetScalar(SumSeq([i \in 1 .. Len(a) |-> a[i] * b.data[i]]))]
      [] OTHER ->
            IF b.shape[1] # Len(a)
            THEN [exc |-> "ValueError", value |-> RetNone]
            ELSE [exc |-> "",
                  value |-> RetArray([j \in 1 .. b.shape[2] |->
                      SumSeq([i \in 1 .. Len(a) |->
                                 a[i] * b.data[(i - 1) * b.shape[2] + j]])])]

\* list(var_ds.keys()): a variable's key is its position in the dataset
Keys(ds) == [i \in 1 .. Len(ds) |-> i]

\* var_key[-1] in place of var_key[0]
last_var_key(keys) == keys[Len(keys)]

\* var_key = var_key[0]
first_var_key(keys) == keys[1]

integrate(cache, ds, rule, ord) ==
    LET r == compute_face_areas(cache, rule, ord)
        printed == IF Len(ds) > 1 THEN <<Warning>> ELSE <<>>
    IN  IF r.exc # ""
        THEN [exc |-> r.exc, cache |-> r.cache, value |-> RetNone, stdout |-> <<>>]
        ELSE IF Len(ds) = 0
        THEN [exc |-> "IndexError", cache |-> r.cache, value |-> RetNone,
              stdout |-> printed]
        ELSE LET d == np_dot(r.areas, ds[first_var_key(Keys(ds))])
             IN  [exc |-> d.exc, cache |-> r.cache, value |-> d.value,
                  stdout |-> printed]

\* ----------------------------------------- compute_antimeridian_faces --
\* (.astype(np.int32) leaves the node indices and the fill value as they are;
\* the table has more than one column, so the final .squeeze() of the mask
\* removes nothing)

\* longitude (x) values of each face: Mesh2_node_x.values[face_nodes]
face_lon == [i \in 1 .. nMesh2_face |->
                [j \in 1 .. nMaxMesh2_face_nodes |->
                    NumpyIndex(Mesh2_node_x, Mesh2_face_nodes[i][j])]]

\* np.pad(a, (0, 1), 'wrap'): one more row and one more column, wrapped
\* around to the first row and the first column
np_pad_wrap(a) ==
    [i \in 1 .. (Len(a) + 1) |->
        LET r == a[((i - 1) % Len(a)) + 1] IN Append(r, r[1])]

\* a[:-1]
DropLast(a) == SubSeq(a, 1, Len(a) - 1)

\* np.abs(np.diff(a)) along the last axis
side_diff(a) ==
    [i \in 1 .. Len(a) |->
        [j \in 1 .. (Len(a[i]) - 1) |-> Abs(a[i][j + 1] - a[i][j])]]

\* np.argwhere(mask) of a 1-D mask: the 0-based indices of its true entries
np_argwhere(m) ==
    SelectSeq([i \in 1 .. Len(m) |-> i - 1], LAMBDA n : m[n + 1])

compute_antimeridian_faces(thr) ==
    LET face_lon_pad == DropLast(np_pad_wrap(face_lon))
        diff == side_diff(face_lon_pad)
        crossed_mask_2d == [i \in 1 .. Len(diff) |->
                               [j \in 1 .. Len(diff[i]) |-> diff[i][j] > thr]]
        crossed_mask_1d == [i \in 1 .. Len(diff) |->
                               \E j \in 1 .. Len(diff[i]) : crossed_mask_2d[i][j]]
        found == np_argwhere(crossed_mask_1d)
    IN  \* .squeeze() of the (k, 1) array: 0-d when k = 1, and tuple() of a
        \* 0-d array raises
        IF Len(found) = 1
        THEN [exc |-> "TypeError", value |-> RetNone]
        ELSE [exc |-> "",
              value |-> RetAntimeridian(found,
                            [k \in 1 .. Len(found) |-> crossed_mask_2d[found[k] + 1]])]

\* ------------------------------------------- split_antimeridian_faces --
np_clip(v, lo, hi) == IF v < lo THEN lo ELSE IF v > hi THEN hi ELSE v

split_antimeridian_faces ==
    LET c == compute_antimeridian_faces(DefaultThreshold)
        antimeridian_faces == c.value.indices
        antimeridian_indices == [k \in 1 .. Len(antimeridian_faces) |->
                                    Mesh2_face_nodes[antimeridian_faces[k] + 1]]
        face_x == [k \in 1 .. Len(antimeridian_indices) |->
                      [j \in 1 .. nMaxMesh2_face_nodes |->
                          NumpyIndex(Mesh2_node_x, antimeridian_indices[k][j])]]
        left_x == [k \in 1 .. Len(face_x) |->
                      [j \in 1 .. nMaxMesh2_face_nodes |->
                          np_clip(IF face_x[k][j] > 0 THEN face_x[k][j] - 360
                                  ELSE face_x[k][j], -180, 180)]]
        right_x == [k \in 1 .. Len(face_x) |->
                       [j \in 1 .. nMaxMesh2_face_nodes |->
                           np_clip(IF face_x[k][j] < 0 THEN face_x[k][j] + 360
                                   ELSE face_x[k][j], -180, 180)]]
        left_exclude == [k \in 1 .. Len(face_x) |->
                            \A j \in 1 .. nMaxMesh2_face_nodes : left_x[k][j] = -180]
        right_exclude == [k \in 1 .. Len(face_x) |->
                             \A j \in 1 .. nMaxMesh2_face_nodes : right_x[k][j] = 180]
    IN  IF c.exc # ""
        THEN [exc |-> c.exc, value |-> RetNone, locals |-> NoLocals]
        ELSE IF Len(antimeridian_faces) = 0
        THEN [exc |-> "", value |-> RetNoneTriple, locals |-> NoLocals]
        ELSE \* the method ends after the masks: it returns None
             [exc |-> "", value |-> RetNone,
              locals |-> [left_x |-> left_x, right_x |-> right_x,
                          left_exclude |-> left_exclude,
                          right_exclude |-> right_exclude]]

\* ------------------------------------------------------------- inputs --
Orders == {1, DefaultOrder, 99}
QuadArgs == (SupportedRules \X Orders) \cup {<<"simpson", DefaultOrder>>}
Thresholds == {DefaultThreshold, 150}

\* coordinates given node by node (0 beyond the given ones)
Coords(s) == [n \in Nodes |-> IF n < Len(s) THEN s[n + 1] ELSE 0]

\* rows of the connectivity table: a quadrilateral, and triangles padded
\* with the fill value
QuadRow == <<0, 1, 2, 3>>
TriRow(s) == <<s, s + 1, s + 2, FillValue>>
FaceRows == {QuadRow, TriRow(0), TriRow(1)}
FaceTables == UNION {[1 .. f -> FaceRows] : f \in 1 .. MaxFaces}

LonGrid == {-180, -170, 10, 170, 180}

\* the variables a dataset can hold for a grid of f faces
Ones(n) == Field(<<n>>, [i \in 1 .. n |-> 1])
Ramp(n) == Field(<<n>>, [i \in 1 .. n |-> i + 1])
FirstFields(f) == {Ones(f), Ramp(f), Ones(f - 1), Ones(f + 1),
                   Field(<<>>, <<2>>), Field(<<f, 2>>, [i \in 1 .. 2 * f |-> i])}
MoreFields(f) == {Field(<<>>, <<2>>)}
Datasets(f) ==
    {<<>>} \cup
    UNION {{<<a>> \o more : a \in FirstFields(f), more \in [1 .. n -> MoreFields(f)]}
              : n \in 0 .. (MaxVars - 1)}

\* ------------------------------------------------------ initial states --
InitCall ==
    /\ _face_areas = None
    /\ op = "init"
    /\ quadrature_rule = ""
    /\ order = 0
    /\ var_ds = <<>>
    /\ threshold = 0
    /\ outcome = ""
    /\ ret = RetNone
    /\ stdout = <<>>
    /\ locals = NoLocals

NoThreads ==
    /\ pc = <<>>
    /\ t_order = <<>>
    /\ t_tmp = <<>>
    /\ t_ret = <<>>
    /\ t_method = <<>>

Init ==
    /\ Mesh2_node_x \in {Coords(<<0, 20, 20, 0>>), Coords(<<10, 20, 30, 40>>)}
    /\ Mesh2_node_y = Coords(<<0, 0, 10, 10>>)
    /\ Mesh2_node_x_units \in {"degrees_east", "m"}
    /\ Mesh2_face_nodes \in FaceTables
    /\ InitCall
    /\ NoThreads

\* ------------------------------------------------------------ actions --
Call(name, rule, ord, ds, thr) ==
    /\ op' = name
    /\ quadrature_rule' = rule
    /\ order' = ord
    /\ var_ds' = ds
    /\ threshold' = thr

Outcome(exc, value, printed) ==
    /\ outcome' = (IF exc = "" THEN "return" ELSE exc)
    /\ ret' = value
    /\ stdout' = printed

ComputeFaceAreas ==
    \E q \in QuadArgs :
        LET r == compute_face_areas(_face_areas, q[1], q[2])
        IN  /\ Call("compute_face_areas", q[1], q[2], <<>>, 0)
            /\ _face_areas' = r.cache
            /\ Outcome(r.exc, IF r.exc = "" THEN RetArray(r.areas) ELSE RetNone, <<>>)
            /\ UNCHANGED <<mesh, locals, threads>>

FaceAreasProperty ==
    LET r == face_areas(_face_areas)
    IN  /\ Call("face_areas", "", 0, <<>>, 0)
        /\ _face_areas' = r.cache
        /\ Outcome(r.exc, IF r.exc = "" THEN RetArray(r.areas) ELSE RetNone, <<>>)
        /\ UNCHANGED <<mesh, locals, threads>>

CalculateTotalFaceArea ==
    \E q \in QuadArgs :
        LET r == calculate_total_face_area(_face_areas, q[1], q[2])
        IN  /\ Call("calculate_total_face_area", q[1], q[2], <<>>, 0)
            /\ _face_areas' = r.cache
            /\ Outcome(r.exc, r.value, <<>>)
            /\ UNCHANGED <<mesh, locals, threads>>

Integrate ==
    \E ds \in Datasets(nMesh2_face), q \in QuadArgs :
        LET r == integrate(_face_areas, ds, q[1], q[2])
        IN  /\ Call("integrate", q[1], q[2], ds, 0)
            /\ _face_areas' = r.cache
            /\ Outcome(r.exc, r.value, r.stdout)
            /\ UNCHANGED <<mesh, locals, threads>>

Next == ComputeFaceAreas \/ FaceAreasProperty \/ CalculateTotalFaceArea \/ Integrate

Spec == Init /\ [][Next]_vars

\* ------------------------------------------- antimeridian: the methods --
InitAnti ==
    /\ Mesh2_node_x \in [Nodes -> LonGrid]
                            \cup {Coords(<<170, -170, -175, 175>>),
                                  Coords(<<10, 20, 30, 40>>)}
    /\ Mesh2_node_y = Coords(<<0, 0, 10, 10>>)
    /\ Mesh2_node_x_units = "degrees_east"
    /\ Mesh2_face_nodes \in FaceTables
    /\ InitCall
    /\ NoThreads

ComputeAntimeridianFaces ==
    \E thr \in Thresholds :
        LET r == compute_antimeridian_faces(thr)
        IN  /\ Call("compute_antimeridian_faces", "", 0, <<>>, thr)
            /\ Outcome(r.exc, r.value, <<>>)
            /\ locals' = NoLocals
            /\ UNCHANGED <<mesh, _face_areas, threads>>

SplitAntimeridianFaces ==
    LET r == split_antimeridian_faces
    IN  /\ Call("split_antimeridian_faces", "", 0, <<>>, 0)
        /\ Outcome(r.exc, r.value, <<>>)
        /\ locals' = r.locals
        /\ UNCHANGED <<mesh, _face_areas, threads>>

NextAnti == ComputeAntimeridianFaces \/ SplitAntimeridianFaces

SpecAnti == InitAnti /\ [][NextAnti]_vars

\* ------------------------------------- concurrent callers of one grid --
\* Two threads call compute_face_areas(order) or read the face_areas
\* property on the same grid; a thread switch can fall between any two of a
\* method's reads and writes of self._face_areas.
Threads == {1, 2}
Methods == {"compute_face_areas", "face_areas"}

InitConc ==
    /\ Mesh2_node_x = Coords(<<0, 20, 20, 0>>)
    /\ Mesh2_node_y = Coords(<<0, 0, 10, 10>>)
    /\ Mesh2_node_x_units \in {"degrees_east", "m"}
    /\ Mesh2_face_nodes \in FaceTables
    /\ InitCall
    /\ t_method \in [Threads -> Methods]
    /\ t_order \in [Threads -> Orders]
    /\ \A t \in Threads : t_method[t] = "face_areas" => t_order[t] = DefaultOrder
    /\ pc = [t \in Threads |->
                IF t_method[t] = "face_areas" THEN "p_check" ELSE "check"]
    /\ t_tmp = [t \in Threads |-> <<>>]
    /\ t_ret = [t \in Threads |-> <<>>]

\* face_areas, line 330: if self._face_areas is None
PropertyCheck(t) ==
    /\ pc[t] = "p_check"
    /\ pc' = [pc EXCEPT ![t] = IF _face_areas.none THEN "check" ELSE "p_return"]
    /\ UNCHANGED <<mesh, _face_areas, op, quadrature_rule, order, var_ds, threshold,
                   outcome, ret, stdout, locals, t_order, t_tmp, t_ret, t_method>>

\* compute_face_areas, line 300: if self._face_areas is None
Check(t) ==
    /\ pc[t] = "check"
    /\ pc' = [pc EXCEPT ![t] = IF _face_areas.none THEN "compute" ELSE "return"]
    /\ UNCHANGED <<mesh, _face_areas, op, quadrature_rule, order, var_ds, threshold,
                   outcome, ret, stdout, locals, t_order, t_tmp, t_ret, t_method>>

\* lines 302-321: the helper builds a new array (or raises)
Compute(t) ==
    /\ pc[t] = "compute"
    /\ LET r == HelperCall(DefaultRule, t_order[t])
       IN  IF r.raised
           THEN /\ pc' = [pc EXCEPT ![t] = "raised"]
                /\ t_tmp' = t_tmp
           ELSE /\ pc' = [pc EXCEPT ![t] = "assign"]
                /\ t_tmp' = [t_tmp EXCEPT ![t] = r.areas]
    /\ UNCHANGED <<mesh, _face_areas, op, quadrature_rule, order, var_ds, threshold,
                   outcome, ret, stdout, locals, t_order, t_ret, t_method>>

\* line 320: self._face_areas = <the new array>
Assign(t) ==
    /\ pc[t] = "assign"
    /\ _face_areas' = Some(t_tmp[t])
    /\ pc' = [pc EXCEPT ![t] = "return"]
    /\ UNCHANGED <<mesh, op, quadrature_rule, order, var_ds, threshold,
                   outcome, ret, stdout, locals, t_order, t_tmp, t_ret, t_method>>

\* line 323: return self._face_areas (the property drops this value)
Return(t) ==
    /\ pc[t] = "return"
    /\ IF t_method[t] = "face_areas"
       THEN /\ pc' = [pc EXCEPT ![t] = "p_return"]
            /\ t_ret' = t_ret
       ELSE /\ pc' = [pc EXCEPT ![t] = "done"]
            /\ t_ret' = [t_ret EXCEPT ![t] = _face_areas.data]
    /\ UNCHANGED <<mesh, _face_areas, op, quadrature_rule, order, var_ds, threshold,
                   outcome, ret, stdout, locals, t_order, t_tmp, t_method>>

\* face_areas, line 332: return self._face_areas
PropertyReturn(t) ==
    /\ pc[t] = "p_return"
    /\ pc' = [pc EXCEPT ![t] = "done"]
    /\ t_ret' = [t_ret EXCEPT ![t] = _face_areas.data]
    /\ UNCHANGED <<mesh, _face_areas, op, quadrature_rule, order, var_ds, threshold,
                   outcome, ret, stdout, locals, t_order, t_tmp, t_method>>

NextConc ==
    \E t \in Threads :
        \/ PropertyCheck(t)
        \/ Check(t)
        \/ Compute(t)
        \/ Assign(t)
        \/ Return(t)
        \/ PropertyReturn(t)

SpecConc == InitConc /\ [][NextConc]_vars

\* ============================================================== claims ==
F == nMesh2_face

\* sum of w[i] * v[i] over the first n entries
RECURSIVE WeightedSum(_, _, _)
WeightedSum(w, v, n) ==
    IF n = 0 THEN 0 ELSE w[n] * v[n] + WeightedSum(w, v, n - 1)

\* the closed polygon of a face's valid (non-sentinel) nodes has an edge,
\* the closing edge included, whose longitudes differ by more than thr
ValidCrossing(i, thr) ==
    LET v == valid_nodes(Mesh2_face_nodes[i], FillValue)
    IN  \E j \in 1 .. Len(v) :
            Abs(Mesh2_node_x[v[(j % Len(v)) + 1]] - Mesh2_node_x[v[j]]) > thr

NoFill == \A i \in 1 .. F : \A j \in 1 .. nMaxMesh2_face_nodes :
              Mesh2_face_nodes[i][j] # FillValue

Range(s) == {s[k] : k \in 1 .. Len(s)}

\* C1: a returning compute_face_areas(rule, order) with a supported rule and
\* order returns, and leaves in the cache, the areas computed with exactly
\* that rule and order, whatever the cache held before.
C1_ComputeReplacesCache ==
    (op = "compute_face_areas" /\ Supported(quadrature_rule, order))
        => /\ outcome = "return"
           /\ ret = RetArray(HelperCall(quadrature_rule, order).areas)
           /\ _face_areas = Some(HelperCall(quadrature_rule, order).areas)

\* C2: an unsupported order passed to compute_face_areas,
\* calculate_total_face_area or integrate raises ConfigurationError and
\* leaves the cache as it was, empty or populated.
C2_UnsupportedOrderRaises ==
    [][(/\ op' \in {"compute_face_areas", "calculate_total_face_area", "integrate"}
        /\ order' \notin SupportedOrders)
          => (outcome' = "ConfigurationError" /\ _face_areas' = _face_areas)]_vars

\* C3: from every state of the cache, integrate on the all-ones field of
\* length F ends the way calculate_total_face_area with the same rule and
\* order would end from that state: the same value, or the same exception.
C3_IntegrateOnesEqualsTotal ==
    [][(op' = "integrate" /\ var_ds' = <<Ones(F)>>)
          => LET t == calculate_total_face_area(_face_areas, quadrature_rule', order')
             IN  /\ outcome' = (IF t.exc = "" THEN "return" ELSE t.exc)
                 /\ ret' = t.value
                 /\ _face_areas' = t.cache]_vars

C3_Witness ==
    /\ op = "integrate"
    /\ var_ds = <<Ones(F)>>
    /\ F > 1
    /\ outcome = "return"
    /\ ret.kind = "scalar"
    /\ ret.val[1] > 0
    /\ order # DefaultOrder

\* C4: integrate never returns a value for a field whose shape is not (F,):
\* shorter, longer, zero-dimensional or with extra dimensions.
C4_WrongShapeNeverReturns ==
    (op = "integrate" /\ Len(var_ds) >= 1 /\ var_ds[1].shape # <<F>>)
        => outcome # "return"

\* C5: with a usable cache or a supported rule and order, integrate on a
\* dataset whose first variable has shape (F,) returns the dot product of the
\* per-face areas with that first variable, however many variables follow it,
\* and prints the warning exactly when the dataset holds more than one.
C5_FirstVariableWithWarning ==
    [][(/\ op' = "integrate"
        /\ Len(var_ds') >= 1
        /\ var_ds'[1].shape = <<F>>
        /\ (~_face_areas.none \/ Supported(quadrature_rule', order')))
          => /\ outcome' = "return"
             /\ ~_face_areas'.none
             /\ ret' = RetScalar(WeightedSum(_face_areas'.data, var_ds'[1].data, F))
             /\ stdout' = (IF Len(var_ds') > 1 THEN <<Warning>> ELSE <<>>)]_vars

C5_Witness ==
    /\ op = "integrate"
    /\ Len(var_ds) = 2
    /\ var_ds[1] = Ramp(F)
    /\ var_ds[2] # var_ds[1]
    /\ F > 1
    /\ outcome = "return"
    /\ ret.val[1] > 0
    /\ stdout = <<Warning>>

\* C6: compute_antimeridian_faces(threshold) flags a face exactly when the
\* closed polygon of its valid nodes has an edge longer than threshold in
\* longitude; fill value slots add no longitude and no edge.
C6_FlaggedIffValidPolygonCrosses ==
    (op = "compute_antimeridian_faces" /\ outcome = "return")
        => \A i \in 1 .. F :
               ((i - 1) \in Range(ret.indices)) <=> ValidCrossing(i, threshold)

\* C7: for zero, one or several crossing faces compute_antimeridian_faces
\* returns normally, with the indices of exactly the crossing faces and one
\* boolean per edge for each of them (stated on tables without fill values).
C7_ReturnsForAnyNumberOfCrossings ==
    (op = "compute_antimeridian_faces" /\ NoFill)
        => /\ outcome = "return"
           /\ Range(ret.indices) = {i - 1 : i \in {k \in 1 .. F : ValidCrossing(k, threshold)}}
           /\ Len(ret.mask) = Len(ret.indices)
           /\ \A k \in 1 .. Len(ret.mask) : Len(ret.mask[k]) = nMaxMesh2_face_nodes

\* C8: split_antimeridian_faces on a grid with a crossing face returns a
\* mapping from the crossing faces to their replacement polygons, or raises
\* TopologyError for a crossing face left without any.
C8_SplitReturnsMapping ==
    (/\ op = "split_antimeridian_faces"
     /\ NoFill
     /\ \E i \in 1 .. F : ValidCrossing(i, DefaultThreshold))
        => \/ outcome = "return" /\ ret.kind = "mapping"
           \/ outcome = "TopologyError"

\* C9: a crossing face whose left candidate collapsed to -180 everywhere (or
\* whose right candidate collapsed to +180 everywhere) gets an output that
\* holds its other candidate only (stated on tables without fill values).
C9_DegenerateCandidateOmitted ==
    (/\ op = "split_antimeridian_faces"
     /\ NoFill
     /\ outcome = "return"
     /\ \E k \in 1 .. Len(locals.left_exclude) :
            locals.left_exclude[k] # locals.right_exclude[k])
        => ret.kind = "mapping"

\* C10: two concurrent compute_face_areas calls with different orders leave
\* the cache empty or holding one complete array of a single computation, and
\* what they return and leave equals what the two calls return and leave
\* when run one after the other, in one of the two orders.
Sequential(a, b) ==
    LET r1 == compute_face_areas(None, DefaultRule, t_order[a])
        r2 == compute_face_areas(r1.cache, DefaultRule, t_order[b])
    IN  /\ pc[a] = (IF r1.exc = "" THEN "done" ELSE "raised")
        /\ pc[b] = (IF r2.exc = "" THEN "done" ELSE "raised")
        /\ t_ret[a] = r1.areas
        /\ t_ret[b] = r2.areas
        /\ _face_areas = r2.cache

C10_ConcurrentCallsSerializable ==
    /\ \/ _face_areas.none
       \/ \E o \in SupportedOrders :
              _face_areas = Some(HelperCall(DefaultRule, o).areas)
    /\ (/\ \A t \in Threads : t_method[t] = "compute_face_areas"
        /\ t_order[1] # t_order[2]
        /\ \A t \in Threads : pc[t] \in {"done", "raised"})
           => (Sequential(1, 2) \/ Sequential(2, 1))

====
